---------------------------- MODULE Spec2Model ----------------------------
(*************************************************************************)
(* The model lifecycle controller of rama (src/model.py), with the       *)
(* update entry point of the HTTP front-end (src/app.py).                *)
(*                                                                       *)
(* One model name is followed.  The supervisor, the two rasa workers,    *)
(* the trainer and the files they leave are the environment; the         *)
(* controller reads them one query at a time, and the environment may    *)
(* move between any two queries.                                         *)
(*************************************************************************)
EXTENDS Integers, Sequences, FiniteSets, TLC

(***************************** bounds ************************************)
\* artifact names are 1..NumNames, ordered as Python orders the file names;
\* 0 stands for the empty string
NumNames == 3
\* creation times (st_ctime) are 1..MaxTime; 0 marks a name that is absent
MaxTime == 3
MaxCtime == 4
\* the port markers found on disk at first carry one of MaxDiskPorts ports
MaxDiskPorts == 4

(************************* program constants *****************************)
\* supervisor process state RUNNING, the literal of Program.is_running
RUNNING == 20
\* supervisor process state STOPPED
STOPPED == 0
\* models[2:] of Model.latest: how many artifacts survive a listing
KEEP == 2
\* first port tried by Model.port
PORT_BASE == 6000

Names == 1..NumNames
Times == 1..MaxTime
\* the tasks (coroutines) that may run a controller operation
Tasks == {"t1", "t2"}
NoModel == 0

Slots == {"program1", "program2"}
Programs == Slots \cup {"train_program"}

\* ModelStatus.Stopped .. ModelStatus.Running
Stopped == "STOPPED"
Starting == "STARTING"
Training == "TRAINING"
Replacing == "REPLACING"
Running == "RUNNING"

(****************************** paths ************************************)
\* A path is the sequence of its components; an absolute path starts at "/".
IsAbsolute(p) == Len(p) > 0 /\ p[1] = "/"

\* pathlib's a / b: an absolute right operand replaces the left one
Join(a, b) == IF IsAbsolute(b) THEN b ELSE a \o b

Parent(p) == IF Len(p) <= 1 THEN p ELSE SubSeq(p, 1, Len(p) - 1)

\* Path(__file__).parent: __file__ of an imported module is absolute
ROOT == <<"/", "rama", "src">>
DATA_DIR == Join(Parent(ROOT), <<"data">>)
MODEL_DIR == Join(DATA_DIR, <<"model">>)

\* the one model name followed
ModelName == "faq"

\* Model.dir
ModelDir == Join(MODEL_DIR, <<ModelName>>)

(*************************** file system *********************************)
\* A file system maps each existing path to its content: a sequence of
\* lines, or DirMark for a directory.
DirMark == <<"<dir>">>

Exists(f, p) == p \in DOMAIN f

IsDir(f, p) == Exists(f, p) /\ f[p] = DirMark

\* Path.mkdir(exist_ok=True, parents=True)
RECURSIVE MkdirParents(_, _)
MkdirParents(f, p) ==
    IF Exists(f, p) \/ Len(p) = 0 THEN f
    ELSE LET g == IF Len(p) = 1 THEN f ELSE MkdirParents(f, Parent(p))
         IN  g @@ (p :> DirMark)

\* open(p, 'w') followed by the write of `lines`
WriteFile(f, p, lines) == [q \in DOMAIN f \cup {p} |-> IF q = p THEN lines ELSE f[q]]

\* Path.rename(src, dst)
Rename(f, src, dst) ==
    [q \in (DOMAIN f \ {src}) \cup {dst} |-> IF q = dst THEN f[src] ELSE f[q]]

\* the file system at import time: MODEL_DIR exists
BaseFs == MkdirParents(<<>>, MODEL_DIR)

\* Model.path(sub, mkdir): the path
PathOf(sub) == IF Len(sub) > 0 THEN Join(ModelDir, sub) ELSE ModelDir

\* Model.path(sub, mkdir): what it leaves on disk
PathFs(f, sub, mkdir) ==
    LET p == PathOf(sub)
        g == IF Exists(f, Parent(p)) THEN f ELSE MkdirParents(f, Parent(p))
    IN  IF mkdir /\ ~Exists(g, p) THEN g @@ (p :> DirMark) ELSE g

(************************ artifact directory *****************************)
\* The artifact directory maps each name to its creation time, 0 when the
\* file is absent.  Creation times of the files present are distinct.
Present(m) == {n \in Names : m[n] # 0}

DistinctTimes(m) == \A a, b \in Present(m) : a # b => m[a] # m[b]

\* models.sort(key=st_ctime, reverse=True)
RECURSIVE SortByCtimeDesc(_, _)
SortByCtimeDesc(S, m) ==
    IF S = {} THEN <<>>
    ELSE LET x == CHOOSE x \in S : \A y \in S : m[y] <= m[x]
         IN  <<x>> \o SortByCtimeDesc(S \ {x}, m)

\* the elements of a sequence
Range(s) == {s[i] : i \in 1..Len(s)}

\* models[k:]
Drop(s, k) == IF Len(s) <= k THEN <<>> ELSE SubSeq(s, k + 1, Len(s))

\* the loop of line 246 unlinking the newest file in place of the old ones
LatestDirUnlinksNewest(m) ==
    LET sorted == SortByCtimeDesc(Present(m), m)
    IN  IF Len(sorted) = 0 THEN m ELSE [m EXCEPT ![sorted[1]] = 0]

\* Model.latest: the directory it leaves (all but the first KEEP unlinked)
LatestDir(m) ==
    LET sorted == SortByCtimeDesc(Present(m), m)
        old == Range(Drop(sorted, KEEP))
    IN  IF Len(sorted) = 0 THEN m
        ELSE [n \in Names |-> IF n \in old THEN 0 ELSE m[n]]

\* the sort of line 245 without reverse=True
LatestNameAscending(m) ==
    LET sorted == SortByCtimeDesc(Present(m), m)
    IN  IF Len(sorted) = 0 THEN NoModel ELSE sorted[Len(sorted)]

\* Model.latest: the name it returns, NoModel for None
LatestName(m) ==
    LET sorted == SortByCtimeDesc(Present(m), m)
    IN  IF Len(sorted) = 0 THEN NoModel ELSE sorted[1]

\* line 200 without the call: status.model != self.latest
NotLatestUncalled(model, latest) == TRUE

\* status.model != self.latest(): a string never equals None
NotLatest(model, latest) == latest = NoModel \/ model # latest

(************************* configuration files ***************************)
\* An object handed to Model.put or Model.train is a str (its lines) or a
\* parsed dict (the values of its pipeline entries).
Str(lines) == [isStr |-> TRUE, lines |-> lines]
Dict(pipeline) == [isStr |-> FALSE, lines |-> pipeline]

\* text that yaml.load rejects
BadYaml == <<"{">>

Malformed(lines) == lines = BadYaml

\* yaml.dump of a dict with the given pipeline values
YamlDump(pipeline) == <<"pipeline:">> \o pipeline

\* yaml.load of a well-formed text: its pipeline values
YamlLoad(lines) ==
    IF Len(lines) > 0 /\ lines[1] = "pipeline:" THEN Tail(lines) ELSE <<>>

\* json.dump of a dict
JsonDump(pipeline) == <<"{pipeline}">> \o pipeline

\* value.startswith('.')
StartsWithDot(v) == v \in {"./lookup.txt", ".cache"}

\* self.path(value).as_posix()
AsPosix(v) ==
    CASE v = "./lookup.txt" -> "/rama/data/model/faq/lookup.txt"
      [] v = ".cache" -> "/rama/data/model/faq/.cache"
      [] OTHER -> v

\* the loop of Model.train over config['pipeline']
RewritePipeline(pipeline) ==
    [i \in 1..Len(pipeline) |->
        IF StartsWithDot(pipeline[i]) THEN AsPosix(pipeline[i]) ELSE pipeline[i]]

ConfigYml == <<"config.yml">>

\* the files Model.train copies from sample/ when missing
YmlFiles == << <<"config.yml">>, <<"credentials.yml">>, <<"domain.yml">>,
               <<"endpoints.yml">>, <<"data", "nlu.yml">>,
               <<"data", "rules.yml">>, <<"data", "stories.yml">> >>

\* ROOT / 'sample' / yml
SampleOf(sub) == <<"sample", sub[Len(sub)]>>

\* Path.suffix
Suffix(p) ==
    LET name == p[Len(p)]
    IN  IF \E i \in 1..Len(YmlFiles) : YmlFiles[i][Len(YmlFiles[i])] = name
        THEN ".yml"
        ELSE IF name = "data.json" THEN ".json" ELSE ""

\* Path('/tmp') / self.name / path
TmpOf(p) == Join(Join(<<"/", "tmp">>, <<ModelName>>), p)

\* what Model.put writes to tmp
PutText(p, obj) ==
    IF obj.isStr THEN obj.lines
    ELSE IF Suffix(p) = ".yml" THEN YamlDump(obj.lines)
    ELSE IF Suffix(p) = ".json" THEN JsonDump(obj.lines)
    ELSE <<>>

\* filecmp.cmp(a, b, False), both files present
FileCmp(f, a, b) == f[a] = f[b]

\* Model.put: the file system it leaves, what it returns, whether
\* filecmp.cmp raised (FileNotFoundError), and whether the target file
\* was written to or replaced
Put(f, sub, obj) ==
    LET p == PathOf(sub)
        f1 == PathFs(f, sub, FALSE)
        tmp == TmpOf(p)
        f2 == MkdirParents(f1, Parent(tmp))
        f3 == WriteFile(f2, tmp, PutText(p, obj))
    IN  IF ~Exists(f3, p)
        THEN [fs |-> f3, ret |-> FALSE, raised |-> TRUE, mutated |-> FALSE]
        ELSE IF ~FileCmp(f3, p, tmp)
        THEN [fs |-> Rename(f3, tmp, p), ret |-> TRUE, raised |-> FALSE,
              mutated |-> TRUE]
        ELSE [fs |-> f3, ret |-> FALSE, raised |-> FALSE, mutated |-> tmp = p]

\* the first segment of Model.train, up to its first sleep: the rewritten
\* data, the file system it leaves, and whether it raised
RECURSIVE PutAll(_, _)
PutAll(f, data) ==
    IF Len(data) = 0 THEN [fs |-> f, raised |-> FALSE]
    ELSE LET r == Put(f, data[1][1], data[1][2])
         IN  IF r.raised THEN [fs |-> r.fs, raised |-> TRUE]
             ELSE PutAll(r.fs, Tail(data))

RECURSIVE CopySamples(_, _)
CopySamples(f, ymls) ==
    IF Len(ymls) = 0 THEN f
    ELSE LET g == PathFs(f, ymls[1], FALSE)
             h == IF Exists(g, PathOf(ymls[1])) THEN g
                  ELSE WriteFile(g, PathOf(ymls[1]), SampleOf(ymls[1]))
         IN  CopySamples(h, Tail(ymls))

\* data['config.yml'] after lines 215-223: a dict is rewritten in place, a
\* str is parsed into a copy and the copy is rewritten
RewriteData(data) ==
    [i \in 1..Len(data) |->
        IF data[i][1] = ConfigYml /\ ~data[i][2].isStr
        THEN <<data[i][1], Dict(RewritePipeline(data[i][2].lines))>>
        ELSE data[i]]

\* line 218 never raising
ConfigNeverRaises(data) == FALSE

\* yaml.load(config) raises
ConfigRaises(data) ==
    \E i \in 1..Len(data) :
        data[i][1] = ConfigYml /\ data[i][2].isStr /\ Malformed(data[i][2].lines)

TrainPrepare(f, data) ==
    LET f1 == PathFs(f, <<"models">>, TRUE)
    IN  IF ConfigRaises(data) THEN [fs |-> f1, raised |-> TRUE]
        ELSE LET r == PutAll(f1, RewriteData(data))
             IN  IF r.raised THEN r
                 ELSE [fs |-> CopySamples(r.fs, YmlFiles), raised |-> FALSE]

(******************************* ports ***********************************)
\* last port (exclusive) and step of the scan of Model.port
PORT_END == 7000
PORT_STEP == 2

PortRange == {q \in PORT_BASE..(PORT_END - 1) : (q - PORT_BASE) % PORT_STEP = 0}

\* the scan of line 308 taking its first port whatever the markers say
FreePortUnchecked(used) == {PORT_BASE}

\* the scan of line 308 without its step of 2
FreePortEveryPort(used) ==
    LET free == (PORT_BASE..(PORT_END - 1)) \ used
    IN  IF free = {} THEN {} ELSE {CHOOSE q \in free : \A r \in free : q <= r}

\* Model.port when the model has no marker: the first port of the scan
\* that no marker on disk carries; {} when the scan finds none
FreePort(used) ==
    LET free == PortRange \ used
    IN  IF free = {} THEN {} ELSE {CHOOSE q \in free : \A r \in free : q <= r}

\* the markers of every model on disk: MODEL_DIR.glob("*/port_*")
UsedPorts(mk) == UNION {mk[m] : m \in DOMAIN mk}

\* Model.port, lines 305-312: the values ports[0] may take; {} when the
\* model has no marker and the scan finds no free port (IndexError)
ModelPort(mk, m) == IF mk[m] # {} THEN mk[m] ELSE FreePort(UsedPorts(mk))

\* the scan of the draft controller: range(6000, 7000)
DraftFreePort(used) ==
    LET free == (PORT_BASE..(PORT_END - 1)) \ used
    IN  IF free = {} THEN {} ELSE {CHOOSE q \in free : \A r \in free : q <= r}

\* Model.port of the draft controller (rama/model.py)
DraftPort(mk, m) == IF mk[m] # {} THEN mk[m] ELSE DraftFreePort(UsedPorts(mk))

(***************** supervisor configuration of a model *******************)
TrainSh == <<"train.sh">>
SupervisorConf == <<"supervisor-1.0.conf">>

\* Model.put_supervisor_conf
PutSupervisorConf(f) ==
    LET f1 == PathFs(f, TrainSh, FALSE)
        r1 == IF Exists(f1, PathOf(TrainSh))
              THEN [fs |-> f1, raised |-> FALSE]
              ELSE Put(f1, TrainSh, Str(<<"rasa train", "curl use_latest", "">>))
        f2 == PathFs(r1.fs, SupervisorConf, FALSE)
    IN  IF r1.raised THEN [fs |-> r1.fs, raised |-> TRUE]
        ELSE IF Exists(f2, PathOf(SupervisorConf))
        THEN [fs |-> f2, raised |-> FALSE]
        ELSE LET r2 == Put(f2, SupervisorConf,
                           Str(<<"[program:program1]", "[program:program2]",
                                 "[program:train_program]">>))
             IN  [fs |-> r2.fs, raised |-> r2.raised]

(******************************* state ***********************************)
VARIABLES
    registered,       \* the supervisor has read this model's program definitions
    proc,             \* supervisor state of each program
    loaded,           \* artifact each worker reports on GET /status, NoModel if none
    models,           \* the artifact directory: name -> creation time
    fs,               \* the rest of the file system: path -> content
    markers,          \* ports of the port_* marker files, per model directory
    constructed,      \* Model.get_model has built the controller
    current_program,  \* Model.current_program
    status,           \* Model.status
    frame,            \* per task: position and locals of the operation it runs
    calls,            \* operations begun so far: 0, 1, or 2 for more
    app,              \* app.py: the setup_model task registered for the model
    lastLatest,       \* the last call of Model.latest made on its own
    putLog,           \* the last two calls of Model.put made on their own
    fresh,            \* the run began with nothing provisioned for the model
    ports,            \* per model name: the port its controller holds, 0 for none
    trainLog,         \* the last update request that carried files, and the
                      \* file system it found
    applied,          \* `supervisorctl update` has run since the run began
    draft             \* position and locals of Model.run of rama/model.py

envVars == <<registered, proc, loaded, models>>
diskVars == <<fs, markers>>
ctlVars == <<constructed, current_program, status>>
\* what the operations followed on their own record
ghostVars == <<trainLog, applied, draft>>
probeVars == <<ports, ghostVars>>
otherVars == <<app, lastLatest, putLog, fresh, probeVars>>
vars == <<registered, proc, loaded, models, fs, markers, constructed,
          current_program, status, frame, calls, app, lastLatest, putLog, fresh,
          probeVars>>

Other(s) == IF s = "program1" THEN "program2" ELSE "program1"

\* ModelStatus.__init__
NewStatus == [text |-> Stopped, msg |-> "", is_running |-> FALSE, model |-> NoModel]

\* ModelStatus.set
Set(st, text, msg) == [st EXCEPT !.text = text, !.msg = msg]

\* what a task saw of the environment when its operation began
NullPre == [proc |-> [p \in Programs |-> STOPPED],
            loaded |-> [s \in Slots |-> NoModel],
            latest |-> NoModel, current |-> "program1",
            steady |-> FALSE, text |-> "", is_running |-> FALSE,
            model |-> NoModel, models |-> [n \in Names |-> 0]]

IdleFrame == [pc |-> "idle", op |-> "", model1 |-> NoModel, model2 |-> NoModel,
              cmds |-> <<>>, result |-> "", trainSeen |-> "", quiet |-> FALSE,
              pre |-> NullPre]

Finished(t) == frame[t].pc \in {"idle", "done"}

\* a supervisorctl command, as the history of the operation keeps it
Cmd(kind, p) == [kind |-> kind, prog |-> p, wasRunning |-> proc[p] = RUNNING]

\* supervisorctl restart <p>: the supervisor state it leaves
AfterRestart(pr, p) == IF registered THEN [pr EXCEPT ![p] = RUNNING] ELSE pr

\* supervisorctl stop <p>
AfterStop(pr, p) == IF registered THEN [pr EXCEPT ![p] = STOPPED] ELSE pr

\* a worker that was (re)started or stopped reports no artifact
Unloaded(ld, p) ==
    IF registered /\ p \in Slots THEN [ld EXCEPT ![p] = NoModel] ELSE ld

\* svctl.getProcessInfo(name) raises for a name the supervisor does not know
RpcRaises == ~registered

\* line 90 with the comparison turned around
IsRunningInverted(p) == proc[p] # RUNNING

\* is_running never answering True for program2
IsRunningUnlessSecond(p) == p # "program2" /\ proc[p] = RUNNING

\* Program.is_running: process['state'] == 20
IsRunning(p) == proc[p] = RUNNING

\* the exception leaves the operation: nothing catches it
Raise(t) == frame' = [frame EXCEPT ![t].pc = "done", ![t].result = "EXCEPTION"]

\* what the trainer was doing when line 176 asked
TrainerState == IF proc["train_program"] = RUNNING THEN "running" ELSE "stopped"

\* lines 196 and 204 without `return`: the call goes on to line 199
ReturnFallingThrough(t, st, text, msg) ==
    /\ status' = Set(st, text, msg)
    /\ frame' = [frame EXCEPT ![t].pc = IF text = Replacing THEN "c199a" ELSE "done",
                              ![t].result = text]

\* return status.set(text, msg)
Return(t, st, text, msg) ==
    /\ status' = Set(st, text, msg)
    /\ frame' = [frame EXCEPT ![t].pc = "done", ![t].result = text]

Goto(t, label) == frame' = [frame EXCEPT ![t].pc = label]

\* 0, 1, many
Bump(n) == IF n >= 2 THEN 2 ELSE n + 1

(***************************** Model.check *******************************)
\* the comparison of line 170 turned around
DesignatedSmaller(m1, m2, cur) ==
    IF m1 # m2 THEN (IF m1 < m2 THEN "program1" ELSE "program2") ELSE cur

\* line 170 without the comparison: program1 whenever the reports differ
DesignatedFirst(m1, m2, cur) == IF m1 # m2 THEN "program1" ELSE cur

\* lines 169-170: the slot designated active, given what the slots report
Designated(m1, m2, cur) ==
    IF m1 # m2 THEN (IF m1 > m2 THEN "program1" ELSE "program2") ELSE cur

\* lines 169-173
Designate(t, m1, m2) ==
    LET cur == Designated(m1, m2, current_program)
        model == IF cur = "program1" THEN m1 ELSE m2
    IN  /\ current_program' = cur
        /\ status' = [status EXCEPT !.model = model, !.is_running = model # NoModel]
        /\ frame' = [frame EXCEPT ![t].pc = "c176", ![t].model1 = m1, ![t].model2 = m2]

\* Program.current_model, after is_running: the answer to GET /status
Reported(s) == IF proc[s] = RUNNING THEN loaded[s] ELSE NoModel

\* line 176 asking about the wrong program
TrainingInFlightOfSlot == IsRunning("program1")

\* line 176: a training run is in flight
TrainingInFlight == IsRunning("train_program")

\* line 192 with `or` for `and`
EitherLoaded(m1, m2) == m1 # NoModel \/ m2 # NoModel

\* line 192: model1 and model2
BothLoaded(m1, m2) == m1 # NoModel /\ m2 # NoModel

\* lines 193 and 201 with the two programs exchanged
SameProgram(cur) == cur

\* lines 193 and 201: the program that is not the current one
OtherProgram(cur) == Other(cur)

\* the last operation of the task was a check that returned Running, and
\* the environment has not moved since that check began
AfterRunning(t) ==
    frame[t].pc = "done" /\ frame[t].op = "check" /\ frame[t].quiet
      /\ frame[t].result = Running

CheckBegin(t) ==
    /\ constructed
    /\ Finished(t)
    /\ frame' = [frame EXCEPT ![t] =
          [IdleFrame EXCEPT !.pc = "c166a", !.op = "check", !.quiet = TRUE,
                            !.pre = IF AfterRunning(t)
                                    THEN [proc |-> proc, loaded |-> loaded,
                                          latest |-> LatestName(models),
                                          current |-> current_program,
                                          steady |-> TRUE,
                                          text |-> status.text,
                                          is_running |-> status.is_running,
                                          model |-> status.model,
                                          models |-> models]
                                    ELSE [NullPre EXCEPT
                                          !.proc = proc, !.loaded = loaded,
                                          !.latest = LatestName(models),
                                          !.current = current_program]]]
    /\ calls' = Bump(calls)
    /\ UNCHANGED <<envVars, diskVars, ctlVars, otherVars>>

\* line 166, program1.is_running()
Check166a(t) ==
    /\ frame[t].pc = "c166a"
    /\ IF RpcRaises THEN Raise(t)
       ELSE IF IsRunning("program1") THEN Goto(t, "c166b")
       ELSE frame' = [frame EXCEPT ![t].pc = "c167a", ![t].model1 = NoModel]
    /\ UNCHANGED <<envVars, diskVars, ctlVars, calls, otherVars>>

\* line 166, GET status of program1
Check166b(t) ==
    /\ frame[t].pc = "c166b"
    /\ frame' = [frame EXCEPT ![t].pc = "c167a", ![t].model1 = Reported("program1")]
    /\ UNCHANGED <<envVars, diskVars, ctlVars, calls, otherVars>>

\* line 167, program2.is_running(), then lines 169-173 when it is down
Check167a(t) ==
    /\ frame[t].pc = "c167a"
    /\ IF RpcRaises THEN Raise(t) /\ UNCHANGED <<current_program, status>>
       ELSE IF IsRunning("program2")
       THEN Goto(t, "c167b") /\ UNCHANGED <<current_program, status>>
       ELSE Designate(t, frame[t].model1, NoModel)
    /\ UNCHANGED <<envVars, diskVars, constructed, calls, otherVars>>

\* line 167, GET status of program2, then lines 169-173
Check167b(t) ==
    /\ frame[t].pc = "c167b"
    /\ Designate(t, frame[t].model1, Reported("program2"))
    /\ UNCHANGED <<envVars, diskVars, constructed, calls, otherVars>>

\* lines 176-177
Check176(t) ==
    /\ frame[t].pc = "c176"
    /\ IF RpcRaises THEN Raise(t) /\ UNCHANGED status
       ELSE IF TrainingInFlight
       THEN /\ status' = Set(status, Training, "Training...")
            /\ frame' = [frame EXCEPT ![t].pc = "done", ![t].result = Training,
                                      ![t].trainSeen = TrainerState]
       ELSE /\ frame' = [frame EXCEPT ![t].pc = "c178", ![t].trainSeen = TrainerState]
            /\ UNCHANGED status
    /\ UNCHANGED <<envVars, diskVars, constructed, current_program, calls, otherVars>>

\* line 178, self.latest(); without an artifact the first segment of
\* self.train() follows (lines 211-233); line 184 otherwise
Check178(t) ==
    /\ frame[t].pc = "c178"
    /\ models' = LatestDir(models)
    /\ IF LatestName(models) = NoModel
       THEN LET r == TrainPrepare(PathFs(fs, <<"models">>, TRUE), <<>>)
            IN  /\ fs' = r.fs
                /\ status' = Set(status, Training, "Updating data")
                /\ IF r.raised THEN Raise(t) ELSE Goto(t, "t235")
       ELSE /\ fs' = PathFs(fs, <<"models">>, TRUE)
            /\ UNCHANGED status
            /\ IF status.model = NoModel THEN Goto(t, "c185") ELSE Goto(t, "c190a")
    /\ UNCHANGED <<registered, proc, loaded, markers, constructed, current_program, calls, otherVars>>

\* line 185, current_program.restart(force=False)
Check185(t) ==
    /\ frame[t].pc = "c185"
    /\ IF RpcRaises THEN Raise(t) /\ UNCHANGED <<proc, loaded>>
       ELSE IF ~IsRunning(current_program)
       THEN /\ proc' = AfterRestart(proc, current_program)
            /\ loaded' = Unloaded(loaded, current_program)
            /\ frame' = [frame EXCEPT ![t].pc = "c186",
                  ![t].cmds = Append(@, Cmd("restart", current_program))]
       ELSE Goto(t, "c186") /\ UNCHANGED <<proc, loaded>>
    /\ UNCHANGED <<registered, models, diskVars, ctlVars, calls, otherVars>>

\* lines 186-187
Check186(t) ==
    /\ frame[t].pc = "c186"
    /\ Return(t, status, Starting, "Model is not running, starting...")
    /\ UNCHANGED <<envVars, diskVars, constructed, current_program, calls, otherVars>>

\* line 190, program1.is_running()
Check190a(t) ==
    /\ frame[t].pc = "c190a"
    /\ IF RpcRaises THEN Raise(t)
       ELSE IF IsRunning("program1") THEN Goto(t, "c190b")
       ELSE Goto(t, "c199a")
    /\ UNCHANGED <<envVars, diskVars, ctlVars, calls, otherVars>>

\* line 190, program2.is_running(), and lines 192-196
Check190b(t) ==
    /\ frame[t].pc = "c190b"
    /\ IF RpcRaises THEN Raise(t) /\ UNCHANGED <<proc, loaded, status>>
       ELSE IF ~IsRunning("program2")
       THEN Goto(t, "c199a") /\ UNCHANGED <<proc, loaded, status>>
       ELSE IF BothLoaded(frame[t].model1, frame[t].model2)
       THEN LET stop_program == OtherProgram(current_program)
            IN  /\ proc' = AfterStop(proc, stop_program)
                /\ loaded' = Unloaded(loaded, stop_program)
                /\ frame' = [frame EXCEPT ![t].pc = "c195",
                      ![t].cmds = Append(@, Cmd("stop", stop_program))]
                /\ UNCHANGED status
       ELSE Return(t, status, Replacing, "Replacing model...")
            /\ UNCHANGED <<proc, loaded>>
    /\ UNCHANGED <<registered, models, diskVars, constructed, current_program, calls, otherVars>>

\* lines 195-196
Check195(t) ==
    /\ frame[t].pc = "c195"
    /\ Return(t, status, Replacing, "Replacing model...")
    /\ UNCHANGED <<envVars, diskVars, constructed, current_program, calls, otherVars>>

\* line 199, current_program.is_running()
Check199a(t) ==
    /\ frame[t].pc = "c199a"
    /\ IF RpcRaises THEN Raise(t) /\ UNCHANGED status
       ELSE IF IsRunning(current_program)
       THEN Goto(t, "c199b") /\ UNCHANGED status
       ELSE Goto(t, "c200") /\ status' = [status EXCEPT !.model = NoModel]
    /\ UNCHANGED <<envVars, diskVars, constructed, current_program, calls, otherVars>>

\* line 199, GET status of the current program
Check199b(t) ==
    /\ frame[t].pc = "c199b"
    /\ status' = [status EXCEPT !.model = Reported(current_program)]
    /\ Goto(t, "c200")
    /\ UNCHANGED <<envVars, diskVars, constructed, current_program, calls, otherVars>>

\* lines 200-202 and 206
Check200(t) ==
    /\ frame[t].pc = "c200"
    /\ models' = LatestDir(models)
    /\ fs' = PathFs(fs, <<"models">>, TRUE)
    /\ IF NotLatest(status.model, LatestName(models))
       THEN LET restart_program == OtherProgram(current_program)
            IN  /\ proc' = AfterRestart(proc, restart_program)
                /\ loaded' = Unloaded(loaded, restart_program)
                /\ frame' = [frame EXCEPT ![t].pc = "c203",
                      ![t].cmds = Append(@, Cmd("restart", restart_program))]
                /\ UNCHANGED status
       ELSE /\ Return(t, status, Running, "Current model")
            /\ UNCHANGED <<proc, loaded>>
    /\ UNCHANGED <<registered, markers, constructed, current_program, calls, otherVars>>

\* lines 203-204
Check203(t) ==
    /\ frame[t].pc = "c203"
    /\ Return(t, status, Replacing, "Current model is not latest, replacing...")
    /\ UNCHANGED <<envVars, diskVars, constructed, current_program, calls, otherVars>>

\* lines 180-181, after self.train() returned
Check180(t) ==
    /\ frame[t].pc = "c180"
    /\ Return(t, status, Training, "No valid model found, starting to train one")
    /\ UNCHANGED <<envVars, diskVars, constructed, current_program, calls, otherVars>>

(***************************** Model.train *******************************)
\* the files an update request may carry
Pipeline == <<"./lookup.txt", "keep">>
DataChoices ==
    { <<>>,
      << <<ConfigYml, Str(YamlDump(Pipeline))>> >>,
      << <<ConfigYml, Dict(Pipeline)>> >>,
      << <<ConfigYml, Str(BadYaml)>> >>,
      << << <<"data", "nlu.yml">>, Str(<<"a">>)>>, <<ConfigYml, Str(BadYaml)>> >> }

\* no update request carried files
NoTrainLog == [data |-> <<>>, fs |-> <<>>]

\* an update request: lines 211-233, up to the sleep of line 235
TrainBegin(t, data) ==
    /\ constructed
    /\ Finished(t)
    /\ LET r == TrainPrepare(fs, data)
       IN  /\ fs' = r.fs
           /\ frame' = [frame EXCEPT ![t] =
                 [IdleFrame EXCEPT !.pc = IF r.raised THEN "done" ELSE "t235",
                                   !.op = "train",
                                   !.result = IF r.raised THEN "EXCEPTION" ELSE ""]]
    /\ status' = Set(status, Training, "Updating data")
    /\ calls' = Bump(calls)
    /\ trainLog' = IF data = <<>> THEN NoTrainLog ELSE [data |-> data, fs |-> fs]
    /\ UNCHANGED <<envVars, markers, constructed, current_program, app,
                   lastLatest, putLog, fresh, ports, applied, draft>>

\* line 236, train_program.restart(): force defaults to True
Train236(t) ==
    /\ frame[t].pc = "t235"
    /\ proc' = AfterRestart(proc, "train_program")
    /\ loaded' = Unloaded(loaded, "train_program")
    /\ frame' = [frame EXCEPT ![t].pc = "t237",
          ![t].cmds = Append(@, Cmd("restart", "train_program"))]
    /\ UNCHANGED <<registered, models, diskVars, ctlVars, calls, otherVars>>

\* line 237; a train() called by check returns to line 180
Train237(t) ==
    /\ frame[t].pc = "t237"
    /\ IF frame[t].op = "check"
       THEN status' = Set(status, Training, "Training...") /\ Goto(t, "c180")
       ELSE Return(t, status, Training, "Training...")
    /\ UNCHANGED <<envVars, diskVars, constructed, current_program, calls, otherVars>>

(***************************** environment *******************************)
\* the environment moved: an operation under way no longer sees the state
\* it began in, and what a finished one left is dropped
EnvTouch ==
    frame' = [t \in Tasks |->
                IF Finished(t) THEN IdleFrame
                ELSE [frame[t] EXCEPT !.quiet = FALSE, !.pre = NullPre]]

\* rasa.model.get_latest_model: the newest file of the directory
RasaLatest(m) == CHOOSE n \in Present(m) : \A k \in Present(m) : m[k] <= m[n]

\* creation times matter by their order only: the ranks of the files present
Normalize(m) ==
    [n \in Names |-> IF m[n] = 0 THEN 0
                     ELSE Cardinality({k \in Present(m) : m[k] <= m[n]})]

\* the names in use anywhere: a new artifact is named after the clock
KnownNames ==
    Present(models) \cup {loaded[s] : s \in Slots} \cup {status.model}
      \cup {frame[t].model1 : t \in Tasks} \cup {frame[t].model2 : t \in Tasks}

MaxOf(S) == CHOOSE x \in S : \A y \in S : y <= x

\* the directory after a training run left a new artifact, newest by name
\* and by creation time
CanDeposit ==
    /\ Cardinality(Present(models)) < MaxTime
    /\ MaxOf(KnownNames \cup {NoModel}) < NumNames

Deposited ==
    LET n == MaxOf(KnownNames \cup {NoModel}) + 1
        m == Normalize(models)
    IN  [m EXCEPT ![n] = Cardinality(Present(models)) + 1]

\* a running worker without an artifact loads the newest one on disk
WorkerLoads(s) ==
    /\ proc[s] = RUNNING
    /\ loaded[s] = NoModel
    /\ Present(models) # {}
    /\ loaded' = [loaded EXCEPT ![s] = RasaLatest(models)]
    /\ EnvTouch
    /\ UNCHANGED <<registered, proc, models, diskVars, ctlVars, calls, otherVars>>

\* a worker exits
WorkerDies(s) ==
    /\ proc[s] = RUNNING
    /\ proc' = [proc EXCEPT ![s] = STOPPED]
    /\ loaded' = [loaded EXCEPT ![s] = NoModel]
    /\ EnvTouch
    /\ UNCHANGED <<registered, models, diskVars, ctlVars, calls, otherVars>>

\* the trainer ends and leaves a new artifact, newest by name and by time
TrainerDeposits ==
    /\ proc["train_program"] = RUNNING
    /\ CanDeposit
    /\ models' = Deposited
    /\ proc' = [proc EXCEPT !["train_program"] = STOPPED]
    /\ EnvTouch
    /\ UNCHANGED <<registered, loaded, diskVars, ctlVars, calls, otherVars>>

\* the trainer ends without an artifact
TrainerFails ==
    /\ proc["train_program"] = RUNNING
    /\ proc' = [proc EXCEPT !["train_program"] = STOPPED]
    /\ EnvTouch
    /\ UNCHANGED <<registered, loaded, models, diskVars, ctlVars, calls, otherVars>>

(******************* app.py: put_model and setup_model *******************)
\* the test of line 136 inverted: task and task.done()
PutBusyWhenDone == app.task = "done"

\* line 136: task and not task.done()
PutBusy == app.task \notin {"none", "done"}

\* PUT /model/<name>
PutModel ==
    /\ IF PutBusy
       THEN app' = [app EXCEPT !.reply = "busy"]
       ELSE app' = [task |-> "scheduled", pending |-> Bump(app.pending),
                    reply |-> "started"]
    /\ UNCHANGED <<envVars, diskVars, ctlVars, frame, calls, lastLatest, putLog, fresh, probeVars>>

\* the scan of setup_model for a port: range(6000, 7000)
SetupPortRange == PORT_BASE..(PORT_END - 1)

SetupConf == <<"supervisor.conf">>

\* setup_model, lines 91-126: the port marker and the supervisor file
SetupTail(f, mk) ==
    LET own == mk[ModelName]
        used == UNION {mk[m] : m \in DOMAIN mk}
        free == SetupPortRange \ used
        port == IF own # {} THEN CHOOSE q \in own : \A r \in own : q <= r
                ELSE CHOOSE q \in free : \A r \in free : q <= r
        svc_file == Join(ModelDir, SetupConf)
    IN  [fs |-> IF Exists(f, svc_file) THEN f
                ELSE WriteFile(f, svc_file, <<"[program:faq]">>),
         markers |-> [mk EXCEPT ![ModelName] = @ \cup {port}],
         task |-> "done"]

\* setup_model, lines 72-89, once the model directory exists
SetupModels(f, m, mk) ==
    LET f1 == MkdirParents(f, Join(ModelDir, <<"models">>))
    IN  IF Present(m) = {}
        THEN [fs |-> f1, markers |-> mk, task |-> "train"]
        ELSE SetupTail(f1, mk)

\* what `rasa init --no-prompt` leaves in the model directory
RasaInit(f) == CopySamples(f, YmlFiles)

AppAdvance(r) ==
    /\ fs' = r.fs
    /\ markers' = r.markers
    /\ app' = [app EXCEPT !.task = r.task,
                         !.pending = IF r.task = "done" THEN @ - 1 ELSE @]

\* the task starts: lines 61-69, and on when the directory exists
SetupRun ==
    /\ app.task = "scheduled"
    /\ IF ~Exists(fs, ModelDir)
       THEN AppAdvance([fs |-> MkdirParents(fs, ModelDir), markers |-> markers,
                        task |-> "init"])
       ELSE AppAdvance(SetupModels(fs, models, markers))
    /\ UNCHANGED <<envVars, ctlVars, frame, calls, lastLatest, putLog, fresh, probeVars>>

\* `rasa init` ended, with its first artifact
SetupInitDone ==
    /\ app.task = "init"
    /\ CanDeposit
    /\ models' = Deposited
    /\ AppAdvance(SetupModels(RasaInit(fs), Deposited, markers))
    /\ EnvTouch
    /\ UNCHANGED <<registered, proc, loaded, ctlVars, calls, lastLatest, putLog, fresh, probeVars>>

\* `rasa train` ended, with a new artifact or without
SetupTrainDone(ok) ==
    /\ app.task = "train"
    /\ ok => CanDeposit
    /\ models' = IF ok THEN Deposited ELSE models
    /\ AppAdvance(SetupTail(fs, markers))
    /\ EnvTouch
    /\ UNCHANGED <<registered, proc, loaded, ctlVars, calls, lastLatest, putLog, fresh, probeVars>>

AppStep ==
    \/ PutModel
    \/ SetupRun
    \/ SetupInitDone
    \/ \E ok \in BOOLEAN : SetupTrainDone(ok)

(************************* initial states ********************************)
\* no update request was made of app.py
NoApp == [task |-> "none", pending |-> 0, reply |-> ""]

\* Model.latest was not called on its own
NoLatest == [called |-> FALSE, before |-> [n \in Names |-> 0], ret |-> NoModel]

AllModels == {ModelName, "other", "third"}

\* no controller holds a port
NoPorts == [m \in AllModels |-> 0]

\* the draft controller before Model.run is called
NoDraft == [pc |-> "idle", text |-> "model_waiting", latest_model |-> NoModel,
            current_model |-> NoModel, put |-> ""]

InitGhost == trainLog = NoTrainLog /\ applied = FALSE /\ draft = NoDraft

\* a model directory an earlier construction provisioned
ProvisionedFs == PutSupervisorConf(PathFs(BaseFs, <<>>, TRUE)).fs

\* ... and an earlier Model.train filled with the sample files
TrainedFs == TrainPrepare(ProvisionedFs, <<>>).fs

NormalDirs ==
    {m \in [Names -> 0..MaxTime] : DistinctTimes(m) /\ m = Normalize(m)}

InitEnv ==
    /\ proc \in [Programs -> {STOPPED, RUNNING}]
    /\ loaded \in [Slots -> {NoModel} \cup Names]
    /\ \A s \in Slots : loaded[s] # NoModel => proc[s] = RUNNING
    /\ models \in NormalDirs

\* the controller of a model that was provisioned before, just constructed
InitCtl ==
    /\ registered = TRUE
    /\ fs \in {ProvisionedFs, TrainedFs}
    /\ markers = [m \in AllModels |-> IF m = ModelName THEN {PORT_BASE} ELSE {}]
    /\ constructed = TRUE
    /\ current_program = "program1"
    /\ status = NewStatus
    /\ frame = [t \in Tasks |-> IdleFrame]
    /\ calls = 0
    /\ app = NoApp
    /\ lastLatest = NoLatest
    /\ putLog = <<>>
    /\ fresh = FALSE
    /\ ports = [NoPorts EXCEPT ![ModelName] = PORT_BASE]
    /\ InitGhost

Init == InitEnv /\ InitCtl

\* nothing is provisioned: no model directory, no controller, and the
\* supervisor knows none of the model's programs
FreshInit ==
    /\ registered = FALSE
    /\ proc = [p \in Programs |-> STOPPED]
    /\ loaded = [s \in Slots |-> NoModel]
    /\ models = [n \in Names |-> 0]
    /\ fs = BaseFs
    /\ markers = [m \in AllModels |-> {}]
    /\ constructed = FALSE
    /\ current_program = "program1"
    /\ status = NewStatus
    /\ frame = [t \in Tasks |-> IdleFrame]
    /\ calls = 0
    /\ app = NoApp
    /\ lastLatest = NoLatest
    /\ putLog = <<>>
    /\ fresh = TRUE
    /\ ports = NoPorts
    /\ InitGhost

CheckStep(t) ==
    \/ CheckBegin(t)
    \/ Check166a(t) \/ Check166b(t) \/ Check167a(t) \/ Check167b(t)
    \/ Check176(t) \/ Check178(t) \/ Check180(t)
    \/ Check185(t) \/ Check186(t)
    \/ Check190a(t) \/ Check190b(t) \/ Check195(t)
    \/ Check199a(t) \/ Check199b(t) \/ Check200(t) \/ Check203(t)

TrainStep(t) ==
    \/ TrainBegin(t, <<>>)
    \/ Train236(t)
    \/ Train237(t)

EnvStep ==
    \/ \E s \in Slots : WorkerLoads(s)
    \/ \E s \in Slots : WorkerDies(s)
    \/ TrainerDeposits
    \/ TrainerFails

\* operations one after the other, on task t1
Next ==
    \/ CheckStep("t1")
    \/ TrainStep("t1")
    \/ EnvStep

Spec == Init /\ [][Next]_vars

\* The training job under update requests, those of app.py included: the
\* model starts at rest (no worker up), and the workers that check starts
\* load their artifact and stay up.
InitUpdate ==
    /\ Init
    /\ \A s \in Slots : proc[s] = STOPPED
    /\ fs = ProvisionedFs

NextUpdate ==
    \/ CheckStep("t1")
    \/ TrainStep("t1")
    \/ \E s \in Slots : WorkerLoads(s)
    \/ TrainerDeposits
    \/ TrainerFails
    \/ AppStep

SpecUpdate == (InitUpdate \/ FreshInit) /\ [][NextUpdate]_vars

(******************** construction and supervisor faults *****************)
\* Model.__init__: the directory, the port marker, the supervisor file.
\* Nothing here tells the supervisor to read the file it wrote.
Construct ==
    /\ ~constructed
    /\ LET f0 == PathFs(fs, <<>>, TRUE)
           choices == ModelPort(markers, ModelName)
       IN  /\ choices # {}
           /\ \E port \in choices :
                 /\ markers' = [markers EXCEPT ![ModelName] = @ \cup {port}]
                 /\ ports' = [ports EXCEPT ![ModelName] = port]
           /\ fs' = PutSupervisorConf(f0).fs
    /\ constructed' = TRUE
    /\ current_program' = "program1"
    /\ status' = NewStatus
    /\ UNCHANGED <<envVars, frame, calls, app, lastLatest, putLog, fresh, ghostVars>>

\* somebody runs `supervisorctl update`: the programs of the file are known
SupervisorUpdate ==
    /\ ~registered
    /\ Exists(fs, PathOf(SupervisorConf))
    /\ registered' = TRUE
    /\ applied' = TRUE
    /\ EnvTouch
    /\ UNCHANGED <<proc, loaded, models, diskVars, ctlVars, calls, app, lastLatest,
                   putLog, fresh, ports, trainLog, draft>>

\* the supervisor stops answering for the programs of the model
SupervisorLost ==
    /\ registered
    /\ registered' = FALSE
    /\ EnvTouch
    /\ UNCHANGED <<proc, loaded, models, diskVars, ctlVars, calls, otherVars>>

NextFault ==
    \/ Construct
    \/ CheckStep("t1")
    \/ TrainStep("t1")
    \/ EnvStep
    \/ SupervisorUpdate
    \/ SupervisorLost

SpecFault == (InitUpdate \/ FreshInit) /\ [][NextFault]_vars

(******************* Model.run of the draft controller *******************)
\* rama/model.py.  The draft names its worker model_<name> and its trainer
\* model_<name>_training; they are followed as program1 and train_program.
DraftGoto(label, text) == draft' = [draft EXCEPT !.pc = label, !.text = text]

\* lines 70-88: the models directory, and supervisor.conf when it is missing
DraftBegin ==
    /\ draft.pc \in {"idle", "done"}
    /\ LET f0 == PathFs(fs, <<"models">>, TRUE)
           f1 == PathFs(f0, SetupConf, FALSE)
       IN  IF Exists(f1, PathOf(SetupConf))
           THEN /\ fs' = f1
                /\ draft' = [NoDraft EXCEPT !.pc = "d94", !.text = draft.text]
                /\ UNCHANGED <<markers, ports>>
           ELSE /\ DraftPort(markers, ModelName) # {}
                /\ \E port \in DraftPort(markers, ModelName) :
                      /\ markers' = [markers EXCEPT ![ModelName] = @ \cup {port}]
                      /\ ports' = [ports EXCEPT ![ModelName] = port]
                /\ fs' = WriteFile(f1, PathOf(SetupConf), <<"[program:faq]">>)
                /\ draft' = [NoDraft EXCEPT !.pc = "d90", !.text = draft.text]
    /\ UNCHANGED <<envVars, ctlVars, frame, calls, app, lastLatest, putLog, fresh,
                   trainLog, applied>>

\* lines 90-92: supervisorctl update, run after the file was written
Draft90 ==
    /\ draft.pc = "d90"
    /\ registered' = TRUE
    /\ applied' = TRUE
    /\ DraftGoto("d94", draft.text)
    /\ UNCHANGED <<proc, loaded, models, diskVars, ctlVars, frame, calls, app,
                   lastLatest, putLog, fresh, ports, trainLog>>

\* config.yml after lines 106-113: parsed, rewritten and dumped
DraftConfig(f) ==
    LET p == PathOf(ConfigYml)
    IN  WriteFile(f, p, YamlDump(RewritePipeline(YamlLoad(f[p]))))

\* lines 94-118, called without data: with no artifact the samples are
\* copied, the trainer is restarted and the call sleeps 30 seconds
Draft94 ==
    /\ draft.pc = "d94"
    /\ IF Present(models) = {}
       THEN /\ fs' = DraftConfig(CopySamples(fs, YmlFiles))
            /\ proc' = AfterRestart(proc, "train_program")
            /\ DraftGoto("d122", "model_training")
       ELSE /\ DraftGoto("d122", draft.text)
            /\ UNCHANGED <<fs, proc>>
    /\ UNCHANGED <<registered, loaded, models, markers, ctlVars, frame, calls, app,
                   lastLatest, putLog, fresh, ports, trainLog, applied>>

\* lines 122-123 and 127: latest_local() and the test of the wait loop
Draft122 ==
    /\ draft.pc = "d122"
    /\ IF Present(models) = {}
       THEN DraftGoto("d125", draft.text)
       ELSE draft' = [draft EXCEPT !.pc = "d129",
                                   !.latest_model = RasaLatest(models)]
    /\ UNCHANGED <<envVars, diskVars, ctlVars, frame, calls, app, lastLatest,
                   putLog, fresh, ports, trainLog, applied>>

\* lines 124-126: the body of the wait loop, a sleep of 15 seconds
Draft125 ==
    /\ draft.pc = "d125"
    /\ DraftGoto("d122", "model_training")
    /\ UNCHANGED <<envVars, diskVars, ctlVars, frame, calls, app, lastLatest,
                   putLog, fresh, ports, trainLog, applied>>

\* lines 129-134: getProcessInfo, not guarded, and the restart of a worker
\* that is not running
Draft129 ==
    /\ draft.pc = "d129"
    /\ IF RpcRaises
       THEN /\ DraftGoto("done", draft.text)
            /\ UNCHANGED <<proc, loaded>>
       ELSE IF proc["program1"] # RUNNING
       THEN /\ proc' = AfterRestart(proc, "program1")
            /\ loaded' = Unloaded(loaded, "program1")
            /\ DraftGoto("d139", "model_starting")
       ELSE /\ DraftGoto("d139", draft.text)
            /\ UNCHANGED <<proc, loaded>>
    /\ UNCHANGED <<registered, models, diskVars, ctlVars, frame, calls, app,
                   lastLatest, putLog, fresh, ports, trainLog, applied>>

\* lines 139-148: GET /status; 200 and 409 leave the loop, a refused
\* connection is swallowed
Draft139 ==
    /\ draft.pc = "d139"
    /\ IF proc["program1"] = RUNNING
       THEN draft' = [draft EXCEPT !.pc = "d154", !.text = "model_starting",
                                   !.current_model = loaded["program1"]]
       ELSE DraftGoto("d150", "model_starting")
    /\ UNCHANGED <<envVars, diskVars, ctlVars, frame, calls, app, lastLatest,
                   putLog, fresh, ports, trainLog, applied>>

\* lines 150-151: the sleep of 5 seconds that ends a turn of `while True`
Draft150 ==
    /\ draft.pc = "d150"
    /\ DraftGoto("d139", draft.text)
    /\ UNCHANGED <<envVars, diskVars, ctlVars, frame, calls, app, lastLatest,
                   putLog, fresh, ports, trainLog, applied>>

\* lines 154-166: PUT /model when the worker does not serve the latest
\* artifact.  The worker answers 204 when it is up and the file is there;
\* a refused connection is turned into 500 by http_put.  Any answer but
\* 204 is logged as an error.
Draft154 ==
    /\ draft.pc = "d154"
    /\ IF draft.current_model = NoModel \/ draft.current_model # draft.latest_model
       THEN IF proc["program1"] = RUNNING /\ models[draft.latest_model] # 0
            THEN /\ loaded' = [loaded EXCEPT !["program1"] = draft.latest_model]
                 /\ draft' = [draft EXCEPT !.pc = "d168", !.put = "204",
                                           !.text = "model_starting"]
            ELSE /\ draft' = [draft EXCEPT !.pc = "d168", !.put = "failed",
                                           !.text = "model_error"]
                 /\ UNCHANGED loaded
       ELSE /\ DraftGoto("d168", draft.text)
            /\ UNCHANGED loaded
    /\ UNCHANGED <<registered, proc, models, diskVars, ctlVars, frame, calls, app,
                   lastLatest, putLog, fresh, ports, trainLog, applied>>

\* line 168: current_running() and the status the call returns
Draft168 ==
    /\ draft.pc = "d168"
    /\ DraftGoto("done", "model_running")
    /\ UNCHANGED <<envVars, diskVars, ctlVars, frame, calls, app, lastLatest,
                   putLog, fresh, ports, trainLog, applied>>

\* the steps of a call past line 118
DraftRuns ==
    \/ Draft122
    \/ Draft125
    \/ Draft129
    \/ Draft139
    \/ Draft150
    \/ Draft154
    \/ Draft168

DraftStep == DraftBegin \/ Draft90 \/ Draft94 \/ DraftRuns

\* The draft is called on a model that may or may not be provisioned; the
\* trainer and the worker move on their own.
InitDraft == InitUpdate \/ FreshInit

NextDraft ==
    \/ DraftStep
    \/ WorkerLoads("program1")
    \/ WorkerDies("program1")
    \/ TrainerDeposits
    \/ TrainerFails

\* Every step of a call that can be taken is taken in the end; nothing is
\* asked of the trainer or of the worker.  Draft94 is enabled exactly at
\* d94 and leaves it, so its weak fairness is that no call stays there.
SpecDraft ==
    /\ InitDraft
    /\ [][NextDraft]_vars
    /\ WF_vars(Draft90)
    /\ []<>(draft.pc # "d94")
    /\ WF_vars(DraftRuns)

(*************************** repeated checks *****************************)
\* Checks one after the other, a supervisor that answers, workers that stay
\* up and load the newest artifact, a trainer that deposits one artifact,
\* and nothing else touching the artifact directory.
InitLive ==
    /\ Init
    /\ fs = ProvisionedFs
    /\ \A s \in Slots : loaded[s] \in {NoModel} \cup Present(models)
    /\ MaxOf(KnownNames \cup {NoModel}) < NumNames

CheckRuns(t) == CheckStep(t) \/ Train236(t) \/ Train237(t)

NextLive ==
    \/ CheckRuns("t1")
    \/ \E s \in Slots : WorkerLoads(s)
    \/ TrainerDeposits

\* A step of the check under way, or the start of the next one, is always
\* possible, so the weak fairness of CheckRuns is []<><<CheckRuns>>_vars.
SpecLive ==
    /\ InitLive
    /\ [][NextLive]_vars
    /\ []<><<CheckRuns("t1")>>_vars
    /\ \A s \in Slots : WF_vars(WorkerLoads(s))
    /\ WF_vars(TrainerDeposits)

(************************ Model.latest on its own ************************)
\* every directory of at most NumNames files with distinct creation times
AnyDirs == {m \in [Names -> 0..MaxCtime] : DistinctTimes(m)}

InitLatest ==
    /\ InitCtl
    /\ proc = [p \in Programs |-> STOPPED]
    /\ loaded = [s \in Slots |-> NoModel]
    /\ models \in AnyDirs

\* a call of Model.latest: line 242 makes models/, lines 245-247 prune
LatestCall ==
    /\ constructed
    /\ fs' = PathFs(fs, <<"models">>, TRUE)
    /\ models' = LatestDir(models)
    /\ lastLatest' = [called |-> TRUE, before |-> models, ret |-> LatestName(models)]
    /\ UNCHANGED <<registered, proc, loaded, markers, ctlVars, frame, calls,
                   app, putLog, fresh, probeVars>>

\* a new artifact file appears, under any free name
ArtifactAppears ==
    /\ Cardinality(Present(models)) < MaxTime
    /\ \E n \in Names \ Present(models) :
          models' = [Normalize(models) EXCEPT ![n] = Cardinality(Present(models)) + 1]
    /\ lastLatest' = NoLatest
    /\ UNCHANGED <<registered, proc, loaded, diskVars, ctlVars, frame, calls,
                   app, putLog, fresh, probeVars>>

NextLatest == LatestCall \/ ArtifactAppears

SpecLatest == InitLatest /\ [][NextLatest]_vars

(************************** Model.put on its own *************************)
PutPaths == {ConfigYml, <<"data", "nlu.yml">>, <<"data.json">>}
PutObjs == {Str(<<"a">>), Str(<<"b">>), Dict(<<"keep">>)}

Absent == <<"<absent>">>

ContentOf(f, p) == IF Exists(f, p) THEN f[p] ELSE Absent

\* the last two calls
LastTwo(log) == IF Len(log) <= 2 THEN log ELSE SubSeq(log, Len(log) - 1, Len(log))

InitPut ==
    /\ Init
    /\ \A p \in Programs : proc[p] = STOPPED
    /\ models = [n \in Names |-> 0]

PutCall(sub, obj) ==
    /\ constructed
    /\ LET r == Put(fs, sub, obj)
       IN  /\ fs' = r.fs
           /\ putLog' = LastTwo(Append(putLog,
                 [sub |-> sub, obj |-> obj, text |-> PutText(PathOf(sub), obj),
                  before |-> ContentOf(fs, PathOf(sub)),
                  after |-> ContentOf(r.fs, PathOf(sub)),
                  ret |-> r.ret, raised |-> r.raised, mutated |-> r.mutated]))
    /\ UNCHANGED <<envVars, markers, ctlVars, frame, calls, app, lastLatest, fresh, probeVars>>

NextPut == \E sub \in PutPaths, obj \in PutObjs : PutCall(sub, obj)

SpecPut == InitPut /\ [][NextPut]_vars

(************************ ports of several models ************************)
\* the ports the markers on disk may carry at first
DiskPorts == PORT_BASE..(PORT_BASE + MaxDiskPorts - 1)

\* the markers earlier runs left: no port under two models
DiskMarkers ==
    {mk \in [AllModels -> SUBSET DiskPorts] :
        \A a, b \in AllModels : a # b => mk[a] \cap mk[b] = {}}

InitPorts ==
    /\ registered = FALSE
    /\ proc = [p \in Programs |-> STOPPED]
    /\ loaded = [s \in Slots |-> NoModel]
    /\ models = [n \in Names |-> 0]
    /\ fs = BaseFs
    /\ markers \in DiskMarkers
    /\ constructed = FALSE
    /\ current_program = "program1"
    /\ status = NewStatus
    /\ frame = [t \in Tasks |-> IdleFrame]
    /\ calls = 0
    /\ app = NoApp
    /\ lastLatest = NoLatest
    /\ putLog = <<>>
    /\ fresh = TRUE
    /\ ports = NoPorts
    /\ InitGhost

\* Model.get_model(m) for a name without a controller: Model.port runs
\* within __init__, which never yields
ControllerPort(m) ==
    /\ ports[m] = 0
    /\ \E port \in ModelPort(markers, m) :
          /\ markers' = [markers EXCEPT ![m] = @ \cup {port}]
          /\ ports' = [ports EXCEPT ![m] = port]
    /\ UNCHANGED <<envVars, fs, ctlVars, frame, calls, app, lastLatest, putLog, fresh,
                   ghostVars>>

\* the same for a controller of the draft class
DraftControllerPort(m) ==
    /\ ports[m] = 0
    /\ \E port \in DraftPort(markers, m) :
          /\ markers' = [markers EXCEPT ![m] = @ \cup {port}]
          /\ ports' = [ports EXCEPT ![m] = port]
    /\ UNCHANGED <<envVars, fs, ctlVars, frame, calls, app, lastLatest, putLog, fresh,
                   ghostVars>>

NextPorts ==
    \/ \E m \in AllModels : ControllerPort(m)
    \/ \E m \in AllModels : DraftControllerPort(m)

SpecPorts == InitPorts /\ [][NextPorts]_vars

(************************* slot ports of the models **********************)
\* Model.__init__, lines 153-154: program1 listens on the port of the
\* model, program2 on the next one
SlotPort(port, s) == IF s = "program1" THEN port ELSE port + 1

\* the models whose markers Model.port creates; the markers of the third
\* come from elsewhere (setup_model of app.py, the draft, an operator)
OwnModels == {ModelName, "other"}

InitSlots ==
    /\ InitPorts
    /\ \A m \in OwnModels : markers[m] = {}

\* the process ends and starts again: get_model has no controller cached
Reconstruct(m) ==
    /\ ports[m] # 0
    /\ ports' = [ports EXCEPT ![m] = 0]
    /\ UNCHANGED <<envVars, diskVars, ctlVars, frame, calls, app, lastLatest, putLog,
                   fresh, ghostVars>>

NextSlots ==
    \/ \E m \in AllModels : ControllerPort(m)
    \/ \E m \in AllModels : Reconstruct(m)

SpecSlots == InitSlots /\ [][NextSlots]_vars

(*********************** update requests with files **********************)
\* Model.train called with files, one request after the other; the
\* trainer it starts ends at some time
InitData ==
    /\ InitCtl
    /\ proc = [p \in Programs |-> STOPPED]
    /\ loaded = [s \in Slots |-> NoModel]
    /\ models = [n \in Names |-> 0]

NextData ==
    \/ \E data \in DataChoices : TrainBegin("t1", data)
    \/ Train236("t1")
    \/ Train237("t1")
    \/ TrainerFails

SpecData == InitData /\ [][NextData]_vars

(************************** overlapping checks ***************************)
\* Two callers of Model.check on the same controller: nothing in check, and
\* no caller in the repository, keeps a second call out while the first one
\* waits at a query, a subprocess or a sleep.
NextOverlap ==
    \/ \E t \in Tasks : CheckRuns(t)
    \/ \E s \in Slots : WorkerLoads(s)
    \/ TrainerDeposits

SpecOverlap == InitUpdate /\ [][NextOverlap]_vars

(******************************* claims **********************************)
DoneCheck(t) == frame[t].pc = "done" /\ frame[t].op = "check"

\* the commands of one kind an operation has issued so far
Issued(t, kind) == {i \in 1..Len(frame[t].cmds) : frame[t].cmds[i].kind = kind}

\* C2 (swap safety): a stop is issued only in a call in which both slots
\* reported a loaded artifact, and never to the slot that call designates
\* active; when the environment did not move during the call, the designated
\* slot is still running with its artifact after the stop.
C2_SwapSafety ==
    \A t \in Tasks : \A i \in Issued(t, "stop") :
        /\ frame[t].model1 # NoModel
        /\ frame[t].model2 # NoModel
        /\ frame[t].cmds[i].prog \in Slots
        /\ frame[t].cmds[i].prog # current_program
        /\ frame[t].quiet =>
              proc[current_program] = RUNNING /\ loaded[current_program] # NoModel

C2_Witness ==
    /\ DoneCheck("t1")
    /\ frame["t1"].quiet
    /\ Issued("t1", "stop") # {}
    /\ frame["t1"].model1 # frame["t1"].model2

\* the scenario of C3 as a call found it: no training in flight, both slots
\* running and reporting different artifacts, slot b the latest on disk
Replacement(pre, a, b) ==
    /\ pre.proc["train_program"] = STOPPED
    /\ pre.proc[a] = RUNNING /\ pre.proc[b] = RUNNING
    /\ pre.loaded[a] # NoModel
    /\ pre.latest # NoModel
    /\ pre.loaded[b] # pre.loaded[a]
    /\ pre.loaded[b] = pre.latest
    /\ pre.current = a

\* C3 as stated: from slot a serving the old artifact and slot b reporting
\* the latest one, a single check stops a and ends with phase Running and the
\* newer artifact as the active one.
C3_AsStated ==
    \A t \in Tasks : \A a \in Slots :
        (DoneCheck(t) /\ frame[t].quiet /\ Replacement(frame[t].pre, a, Other(a)))
        => /\ frame[t].result = Running
           /\ status.model = frame[t].pre.loaded[Other(a)]
           /\ \E i \in Issued(t, "stop") : frame[t].cmds[i].prog = a

\* C3 amended: from that scenario a single check issues exactly one command,
\* the stop of the slot whose artifact name compares smaller, designates the
\* other slot active with its artifact as the active one, and ends with
\* phase Replacing.
C3_ReplacingAfterStop ==
    \A t \in Tasks : \A a \in Slots :
        (DoneCheck(t) /\ frame[t].quiet /\ Replacement(frame[t].pre, a, Other(a)))
        => LET pre == frame[t].pre
               winner == IF pre.loaded[a] > pre.loaded[Other(a)] THEN a ELSE Other(a)
           IN  /\ frame[t].result = Replacing
               /\ status.text = Replacing
               /\ Len(frame[t].cmds) = 1
               /\ frame[t].cmds[1].kind = "stop"
               /\ frame[t].cmds[1].prog = Other(winner)
               /\ current_program = winner
               /\ status.model = pre.loaded[winner]
               /\ status.is_running

C3_Witness ==
    /\ DoneCheck("t1")
    /\ frame["t1"].quiet
    /\ Replacement(frame["t1"].pre, "program1", "program2")
    /\ frame["t1"].pre.loaded["program2"] > frame["t1"].pre.loaded["program1"]
    /\ current_program = "program2"
    /\ proc["program1"] = STOPPED

\* C7 (training-in-flight guard): a check whose query of the training
\* process found it running returns at once with phase Training and has
\* issued no command, whatever the slots and the artifact directory hold.
C7_TrainingGuard ==
    \A t \in Tasks :
        (frame[t].op = "check" /\ frame[t].trainSeen = "running")
        => /\ frame[t].pc = "done"
           /\ frame[t].result = Training
           /\ status.text = Training
           /\ frame[t].cmds = <<>>

C7_Witness ==
    /\ DoneCheck("t1")
    /\ frame["t1"].trainSeen = "running"
    /\ frame["t1"].model1 # NoModel
    /\ frame["t1"].model2 = NoModel
    /\ Cardinality(Present(models)) = 2
    /\ status.model # LatestName(models)

\* the steady state of C8 as a call found it: no training in flight, slot s
\* running and reporting the latest artifact, the other slot not running
Steady(pre, s) ==
    /\ pre.proc["train_program"] = STOPPED
    /\ pre.proc[s] = RUNNING
    /\ pre.proc[Other(s)] = STOPPED
    /\ pre.latest # NoModel
    /\ pre.loaded[s] = pre.latest

\* C8 (steady state): a check that finds the steady state sets phase
\* Running, is_running true and the active artifact to the latest one.
C8_SteadyState ==
    \A t \in Tasks : \A s \in Slots :
        (DoneCheck(t) /\ frame[t].quiet /\ Steady(frame[t].pre, s))
        => /\ frame[t].result = Running
           /\ status.text = Running
           /\ status.is_running
           /\ status.model = frame[t].pre.latest
           /\ current_program = s

C8_Witness ==
    /\ DoneCheck("t1")
    /\ frame["t1"].quiet
    /\ Steady(frame["t1"].pre, "program2")
    /\ status.text = Running

\* the restarts of the training process an operation has issued so far
TrainRestarts(t) ==
    {i \in Issued(t, "restart") : frame[t].cmds[i].prog = "train_program"}

C4_AsStated ==
    <>[](/\ status.text = Running
         /\ status.model # NoModel
         /\ status.model = LatestName(models))

\* C5 as stated (errors absorbed): no exception leaves Model.check; a check
\* that met a failing supervisor call ends in phase ERROR.
C5_AsStated ==
    \A t \in Tasks : frame[t].op = "check" => frame[t].result # "EXCEPTION"

\* C6 as stated (first provisioning): starting from nothing, construction
\* and the first check leave the model directory and every default
\* configuration file on disk, the trainer restarted exactly once, and
\* phase TRAINING.
C6_AsStated ==
    (fresh /\ calls = 1 /\ DoneCheck("t1"))
    => /\ IsDir(fs, ModelDir)
       /\ \A i \in 1..Len(YmlFiles) : Exists(fs, PathOf(YmlFiles[i]))
       /\ Len(frame["t1"].cmds) = 1
       /\ TrainRestarts("t1") = {1}
       /\ frame["t1"].result = Training
       /\ status.text = Training

\* the files of `before` that are among the k created last
Newest(before, k) ==
    {n \in Present(before) :
        Cardinality({j \in Present(before) : before[j] > before[n]}) < k}

\* C9 (retention): after a call of Model.latest the directory holds exactly
\* the two artifacts created last of those it held (at most 2 files), each
\* untouched; the name returned is the one created last of those present
\* before, and nothing is returned exactly when the directory held none.
C9_Retention ==
    lastLatest.called =>
        /\ Cardinality(Present(models)) <= 2
        /\ Present(models) = Newest(lastLatest.before, 2)
        /\ \A n \in Present(models) : models[n] = lastLatest.before[n]
        /\ (lastLatest.ret = NoModel) <=> (Present(lastLatest.before) = {})
        /\ lastLatest.ret # NoModel => Newest(lastLatest.before, 1) = {lastLatest.ret}

C9_Witness ==
    /\ lastLatest.called
    /\ Cardinality(Present(lastLatest.before)) >= 3
    /\ Cardinality(Present(models)) = 2
    /\ \E n \in Present(lastLatest.before) : n > lastLatest.ret

\* C10 as stated (no-op write): the second of two calls of Model.put in a
\* row with the same path and content leaves the target file untouched and
\* returns False; a call whose content differs from the file's replaces the
\* file and returns True.
C10_AsStated ==
    /\ (Len(putLog) = 2 /\ putLog[1].sub = putLog[2].sub
                        /\ putLog[1].obj = putLog[2].obj)
       => (~putLog[2].mutated /\ ~putLog[2].ret /\ ~putLog[2].raised)
    /\ \A i \in 1..Len(putLog) :
          (putLog[i].before # Absent /\ putLog[i].before # putLog[i].text)
          => (putLog[i].ret /\ putLog[i].after = putLog[i].text)

\* C11 (port uniqueness): whatever controllers were constructed, in any
\* order and of either class, no port is carried by the markers of two
\* models, the ports the controllers hold are pairwise distinct, and each
\* controller's port is on a marker of its own model.
C11_PortsDistinct ==
    \A a, b \in AllModels :
        /\ ports[a] # 0 => ports[a] \in markers[a]
        /\ a # b =>
              /\ markers[a] \cap markers[b] = {}
              /\ ports[a] # 0 => ports[a] # ports[b]

C11_Witness ==
    /\ \A m \in AllModels : ports[m] # 0
    /\ \E m \in AllModels : ports[m] = PORT_BASE + 2 * PORT_STEP
    /\ \E m \in AllModels : ports[m] = PORT_BASE

\* the config.yml an update request carried, as a set of at most one object
ConfigOf(data) == {data[i][2] : i \in {j \in 1..Len(data) : data[j][1] = ConfigYml}}

\* the pipeline values of a supplied config.yml, text or parsed
PipelineOf(obj) == IF obj.isStr THEN YamlLoad(obj.lines) ELSE obj.lines

\* the request of trainLog got past its writes
Wrote(t) ==
    /\ frame[t].op = "train"
    /\ frame[t].result # "EXCEPTION"
    /\ trainLog.data # <<>>

\* C12 as stated (path rewriting): after an update that carried a
\* config.yml, as text or parsed, the config.yml on disk is the supplied
\* one with every pipeline value that begins with '.' made an absolute path
\* under the model directory, and every other value as supplied.
C12_AsStated ==
    \A t \in Tasks : Wrote(t) =>
        \A obj \in ConfigOf(trainLog.data) :
            fs[PathOf(ConfigYml)] = YamlDump(RewritePipeline(PipelineOf(obj)))

\* the entries of a file system that are not directories
Files(f) == {p \in DOMAIN f : f[p] # DirMark}

\* the request of trainLog carried a malformed config.yml
Rejected(t) ==
    /\ frame[t].op = "train"
    /\ \E obj \in ConfigOf(trainLog.data) : obj.isStr /\ Malformed(obj.lines)

\* C13 as stated (invalid configuration): an update whose config.yml is
\* malformed raises, restarts nothing, and leaves the model directory as it
\* found it: nothing created, nothing modified.
C13_AsStated ==
    \A t \in Tasks : Rejected(t) =>
        /\ frame[t].pc = "done"
        /\ frame[t].result = "EXCEPTION"
        /\ frame[t].cmds = <<>>
        /\ fs = trainLog.fs

\* C13 amended: an update whose config.yml is malformed raises at line 218,
\* restarts nothing, and creates or modifies no file, the other files of the
\* request included; the only entry it may add is the directory models/.
C13_RejectedBeforeWrite ==
    \A t \in Tasks : Rejected(t) =>
        /\ frame[t].pc = "done"
        /\ frame[t].result = "EXCEPTION"
        /\ frame[t].cmds = <<>>
        /\ Files(fs) = Files(trainLog.fs)
        /\ \A p \in Files(fs) : fs[p] = trainLog.fs[p]
        /\ DOMAIN fs \ DOMAIN trainLog.fs \subseteq {PathOf(<<"models">>)}
        /\ DOMAIN trainLog.fs \subseteq DOMAIN fs

C13_Witness ==
    /\ Rejected("t1")
    /\ Len(trainLog.data) = 2
    /\ ~Exists(fs, PathOf(<<"data", "nlu.yml">>))
    /\ Exists(fs, PathOf(<<"models">>))
    /\ ~Exists(trainLog.fs, PathOf(<<"models">>))

\* a check that has begun and not returned
InCheck(t) == frame[t].op = "check" /\ ~Finished(t)

\* the restarts of slots a check has issued so far
SlotRestarts(t) ==
    {i \in Issued(t, "restart") : frame[t].cmds[i].prog \in Slots}

\* C14 as stated (no overlapping checks): two calls of Model.check on one
\* model are never both under way, so no two calls that overlapped both
\* restarted the training process, nor both restarted a slot.
C14_AsStated ==
    \A a, b \in Tasks : a # b =>
        /\ ~(InCheck(a) /\ InCheck(b))
        /\ ~(TrainRestarts(a) # {} /\ TrainRestarts(b) # {})
        /\ ~(SlotRestarts(a) # {} /\ SlotRestarts(b) # {})

\* the scenario of C15 as a call found it: an artifact on disk, no training
\* in flight, and no slot reporting an artifact
Down(pre) ==
    /\ pre.proc["train_program"] = STOPPED
    /\ pre.latest # NoModel
    /\ \A s \in Slots : pre.loaded[s] = NoModel

\* C15 (start when down): a check that finds the model down ends with phase
\* Starting and the designation unchanged; it issues one restart, to the
\* designated slot, when that slot is not running, and no command at all
\* when that slot is already running without an artifact.
C15_StartWhenDown ==
    \A t \in Tasks :
        (DoneCheck(t) /\ frame[t].quiet /\ Down(frame[t].pre))
        => LET pre == frame[t].pre
           IN  /\ frame[t].result = Starting
               /\ status.text = Starting
               /\ ~status.is_running
               /\ current_program = pre.current
               /\ frame[t].cmds =
                     IF pre.proc[pre.current] = RUNNING THEN <<>>
                     ELSE <<[kind |-> "restart", prog |-> pre.current,
                             wasRunning |-> FALSE]>>

C15_Witness ==
    /\ DoneCheck("t1")
    /\ frame["t1"].quiet
    /\ Down(frame["t1"].pre)
    /\ \A s \in Slots : frame["t1"].pre.proc[s] = STOPPED
    /\ Len(frame["t1"].cmds) = 1
    /\ proc[current_program] = RUNNING

\* the scenario of C16 as a call found it: no training in flight, slot s
\* designated, running and reporting an artifact that is not the latest on
\* disk, the other slot not running
Outdated(pre, s) ==
    /\ pre.proc["train_program"] = STOPPED
    /\ pre.current = s
    /\ pre.proc[s] = RUNNING
    /\ pre.proc[Other(s)] = STOPPED
    /\ pre.latest # NoModel
    /\ pre.loaded[s] # NoModel
    /\ pre.loaded[s] # pre.latest

\* C16 (begin replacement): a check that finds the active slot serving an
\* artifact that is not the latest issues exactly one command, the restart
\* of the other slot, keeps the designation and the active artifact, and
\* ends with phase Replacing.
C16_BeginReplacement ==
    \A t \in Tasks : \A s \in Slots :
        (DoneCheck(t) /\ frame[t].quiet /\ Outdated(frame[t].pre, s))
        => /\ frame[t].result = Replacing
           /\ status.text = Replacing
           /\ current_program = s
           /\ status.model = frame[t].pre.loaded[s]
           /\ Len(frame[t].cmds) = 1
           /\ frame[t].cmds[1].kind = "restart"
           /\ frame[t].cmds[1].prog = Other(s)
           /\ proc[s] = RUNNING /\ loaded[s] = frame[t].pre.loaded[s]

C16_Witness ==
    /\ DoneCheck("t1")
    /\ frame["t1"].quiet
    /\ Outdated(frame["t1"].pre, "program2")
    /\ proc["program1"] = RUNNING

\* a check is past lines 169-172 with both slots reporting artifacts, two
\* different ones, both still on disk
Compared(t) ==
    /\ frame[t].op = "check"
    /\ frame[t].pc \notin {"c166a", "c166b", "c167a", "c167b"}
    /\ frame[t].model1 # frame[t].model2
    /\ {frame[t].model1, frame[t].model2} \subseteq Present(models)

\* C17 as stated (active slot follows the newest artifact): when the slots
\* report two different artifacts, the slot the check designates serves the
\* one created last.
C17_AsStated ==
    \A t \in Tasks : Compared(t) =>
        LET mine == IF current_program = "program1" THEN frame[t].model1
                    ELSE frame[t].model2
            other == IF current_program = "program1" THEN frame[t].model2
                     ELSE frame[t].model1
        IN  models[mine] > models[other]

\* a check of a model provisioned in this run has sent its first request to
\* the supervisor
Queried(t) == fresh /\ frame[t].op = "check" /\ frame[t].pc # "c166a"

\* C18 as stated (supervisor update follows provisioning): once the program
\* definitions of a model were newly written, the supervisor has been told
\* to read them before a check queries, starts or restarts a program.
C18_AsStated == \A t \in Tasks : Queried(t) => applied

\* a call of the draft Model.run that has begun and not returned
DraftInFlight == draft.pc \notin {"idle", "done"}

\* C19 as stated (no waiting inside a call): every call of Model.check and
\* every call of the draft Model.run returns, whatever the trainer and the
\* worker do or fail to do.
C19_AsStated ==
    /\ \A t \in Tasks : InCheck(t) ~> ~InCheck(t)
    /\ DraftInFlight ~> (draft.pc = "done")

\* a check that began right after a check that returned Running, with the
\* environment still as that first check found it
Again(t) == frame[t].op = "check" /\ frame[t].quiet /\ frame[t].pre.steady

\* C20 (idempotent in steady state): after a check has returned Running,
\* and while the supervisor states, the loaded artifacts and the artifact
\* directory stay as that check found them, a further check issues no
\* supervisor command, unlinks no artifact, and leaves the phase,
\* is_running, the active artifact and the designated slot as they were;
\* it returns Running again.
C20_Idempotent ==
    \A t \in Tasks : Again(t) =>
        /\ frame[t].cmds = <<>>
        /\ models = frame[t].pre.models
        /\ status.text = frame[t].pre.text
        /\ status.text = Running
        /\ status.is_running = frame[t].pre.is_running
        /\ status.model = frame[t].pre.model
        /\ current_program = frame[t].pre.current
        /\ DoneCheck(t) => frame[t].result = Running

C20_Witness ==
    /\ DoneCheck("t1")
    /\ Again("t1")
    /\ current_program = "program2"
    /\ Cardinality(Present(models)) = KEEP

\* a call of the draft Model.run has returned after a PUT /model that the
\* worker did not answer with 204
PutRejected == draft.pc = "done" /\ draft.put = "failed"

\* C21 as stated (a rejected replacement is recorded): when the PUT of the
\* draft Model.run is answered with anything but 204, the status the call
\* leaves and returns is the error status, not the running one.
C21_AsStated == PutRejected => draft.text = "model_error"

\* a check has returned a status (no exception left it)
Returned(t) == DoneCheck(t) /\ frame[t].result # "EXCEPTION"

\* C22 as stated (is_running follows the active artifact): when a check has
\* returned, status.is_running is true exactly when status.model is not
\* empty, whatever the workers did during the call.
C22_AsStated ==
    \A t \in Tasks : Returned(t) => (status.is_running <=> status.model # NoModel)

\* a call of Model.check or Model.train has ended, by a return or by an
\* exception
Ended(t) == frame[t].pc = "done" /\ frame[t].op \in {"check", "train"}

\* C23 as stated (Training means a training run): when a call of check or
\* train has ended and the phase is Training, that call found the training
\* process running or restarted it.
C23_AsStated ==
    \A t \in Tasks :
        (Ended(t) /\ status.text = Training)
        => (frame[t].trainSeen = "running" \/ TrainRestarts(t) # {})

\* a check is past lines 169-173 and no exception has left it
Designation(t) ==
    /\ frame[t].op = "check"
    /\ frame[t].pc \notin {"c166a", "c166b", "c167a", "c167b"}
    /\ frame[t].result # "EXCEPTION"

\* what the slot designated active reported at lines 166-167
Mine(t) == IF current_program = "program1" THEN frame[t].model1 ELSE frame[t].model2

\* C24 as stated (the designated slot is a loaded one): once a check has
\* designated the active slot, if a slot reported an artifact then the
\* designated slot reported one; when the check has returned, status.model
\* is the artifact that slot reported; and the designation differs from the
\* one the call found only if the two slots reported different artifacts.
C24_AsStated ==
    \A t \in Tasks :
        (Designation(t) /\ (frame[t].model1 # NoModel \/ frame[t].model2 # NoModel))
        => /\ Mine(t) # NoModel
           /\ Returned(t) => status.model = Mine(t)
           /\ (frame[t].quiet /\ current_program # frame[t].pre.current)
              => frame[t].model1 # frame[t].model2

\* C24 (the designated slot is a loaded one): as above, but when the check
\* has returned, status.model is the artifact the designated slot reported
\* at lines 166-167, or empty when line 199 asked again and the slot had
\* stopped; it is that artifact when the environment did not move.
C24_DesignatedLoaded ==
    \A t \in Tasks :
        (Designation(t) /\ (frame[t].model1 # NoModel \/ frame[t].model2 # NoModel))
        => /\ Mine(t) # NoModel
           /\ Returned(t) => status.model \in {Mine(t), NoModel}
           /\ (Returned(t) /\ frame[t].quiet) => status.model = Mine(t)
           /\ (frame[t].quiet /\ current_program # frame[t].pre.current)
              => frame[t].model1 # frame[t].model2

C24_Witness ==
    /\ Returned("t1")
    /\ frame["t1"].quiet
    /\ current_program # frame["t1"].pre.current
    /\ frame["t1"].model1 # NoModel
    /\ frame["t1"].model2 # NoModel
    /\ status.model = Mine("t1")

\* a check has returned Running
SetRunning(t) == Returned(t) /\ frame[t].result = Running

\* the slots that answered lines 166-167 with an artifact, hence were
\* running then
SeenLoaded(t) ==
    {s \in Slots : (IF s = "program1" THEN frame[t].model1 ELSE frame[t].model2)
                   # NoModel}

BothRunning == IsRunning("program1") /\ IsRunning("program2")

\* C25 as stated (Running with one slot): when a check returns Running,
\* one slot only was seen running during the call, the designated one, and
\* the two slots are not both running.
C25_AsStated ==
    \A t \in Tasks : SetRunning(t) =>
        /\ SeenLoaded(t) = {current_program}
        /\ ~BothRunning

\* C25 (Running with one slot): when a check returns Running, the
\* designated slot answered line 199 with an artifact and the two slots are
\* not both running; when the environment did not move during the call,
\* the designated slot was running and the other was not.
C25_OneSlotRunning ==
    \A t \in Tasks : SetRunning(t) =>
        /\ status.model # NoModel
        /\ ~BothRunning
        /\ frame[t].quiet =>
              /\ frame[t].pre.proc[current_program] = RUNNING
              /\ frame[t].pre.proc[Other(current_program)] # RUNNING
              /\ SeenLoaded(t) = {current_program}

C25_Witness ==
    /\ SetRunning("t1")
    /\ frame["t1"].quiet
    /\ current_program = "program2"
    /\ frame["t1"].pre.proc["program1"] = STOPPED

\* C26 (one step per check): a call of Model.check issues at most one
\* supervisor command: one restart of the trainer, or one restart of a
\* slot, or one stop of a slot.
C26_OneCommand ==
    \A t \in Tasks : frame[t].op = "check" => Len(frame[t].cmds) <= 1

\* a call that stopped a slot and issued nothing else
C26_Witness ==
    /\ DoneCheck("t1")
    /\ Issued("t1", "stop") # {}
    /\ Len(frame["t1"].cmds) = 1

\* the two slot ports of a model, from its markers on disk
SlotPorts(m) == {SlotPort(p, s) : p \in markers[m], s \in Slots}

\* C27 (slot ports of different models): models whose markers Model.port
\* created have no slot port in common; such a model has one marker only,
\* and a controller built again for it holds the port of that marker.
C27_SlotPortsDisjoint ==
    /\ \A a, b \in OwnModels : a # b => SlotPorts(a) \cap SlotPorts(b) = {}
    /\ \A m \in OwnModels :
          /\ Cardinality(markers[m]) <= 1
          /\ ports[m] # 0 => markers[m] = {ports[m]}

\* both models have their marker while a foreign marker holds the first
\* port of the scan; one controller is held, the other was dropped
C27_Witness ==
    /\ \A m \in OwnModels : markers[m] # {}
    /\ PORT_BASE \in markers["third"]
    /\ ports[ModelName] # 0
    /\ ports["other"] = 0

=============================================================================
